---- MODULE Spec2Model ----
(***************************************************************************)
(* The login endpoint of django_start_kit: LoginSerializer                 *)
(* (apps/api/serializers.py) and LoginAPIView.post (apps/api/views.py).    *)
(*                                                                         *)
(* Strings are sequences of one-character strings over a small alphabet,   *)
(* so that trimming, blank tests and e-mail syntax are computed and not    *)
(* assumed.  A JSON value of the request body is a record [kind, chars].   *)
(***************************************************************************)
EXTENDS Integers, Sequences, FiniteSets, TLC

VARIABLES users, request, pc, serializer, user, calls, responses, exc,
          session, prev

vars == <<users, request, pc, serializer, user, calls, responses, exc,
          session, prev>>

---------------------------------------------------------------------------
(* Bounds of the model *)

\* longest password string a request carries
MaxPwLen == 2

\* cap on the per-request log of external calls (the handler makes at most 3)
MaxCalls == 4

---------------------------------------------------------------------------
(* Strings *)

Space == " "

RECURSIVE LStrip(_)
LStrip(s) == IF s # <<>> /\ Head(s) = Space THEN LStrip(Tail(s)) ELSE s

RECURSIVE RStrip(_)
RStrip(s) ==
    IF s # <<>> /\ s[Len(s)] = Space THEN RStrip(SubSeq(s, 1, Len(s) - 1)) ELSE s

\* str.strip()
Strip(s) == RStrip(LStrip(s))

\* all strings over alphabet of length at most n
StringsUpTo(alphabet, n) == UNION {[1..k -> alphabet] : k \in 0..n}

\* index of the last occurrence of c in s, 0 when there is none
LastIndexOf(s, c) ==
    LET hits == {i \in 1..Len(s) : s[i] = c}
    IN  IF hits = {} THEN 0 ELSE CHOOSE i \in hits : \A j \in hits : j <= i

\* s.split(c): the maximal runs of s between occurrences of c, as a sequence
RECURSIVE Split(_, _)
Split(s, c) ==
    LET hits == {i \in 1..Len(s) : s[i] = c}
    IN  IF hits = {} THEN <<s>>
        ELSE LET i == CHOOSE k \in hits : \A j \in hits : k <= j
             IN  <<SubSeq(s, 1, i - 1)>> \o Split(SubSeq(s, i + 1, Len(s)), c)

---------------------------------------------------------------------------
(* JSON values of the request body *)

Empty == [kind |-> "empty", chars |-> <<>>]      \* the key is absent
Null == [kind |-> "null", chars |-> <<>>]
JsonList == [kind |-> "list", chars |-> <<>>]
JsonStr(s) == [kind |-> "str", chars |-> s]
JsonNum(digits) == [kind |-> "num", chars |-> digits]

\* str(data) for the kinds CharField.to_internal_value accepts
Str(data) == data.chars

---------------------------------------------------------------------------
(* E-mail syntax: django.core.validators.EmailValidator, which EmailField  *)
(* installs, restricted to the alphabet of the model.                      *)

AlnumChars == {"a", "1"}

\* user_regex, dot-atom alternative: atoms of atext separated by single dots
UserPartOK(u) ==
    LET atoms == Split(u, ".")
    IN  \A i \in 1..Len(atoms) :
            /\ atoms[i] # <<>>
            /\ \A k \in 1..Len(atoms[i]) : atoms[i][k] \in AlnumChars

\* domain_regex: one or more labels each followed by a dot, then a top-level
\* label of at least two characters
DomainPartOK(d) ==
    LET labels == Split(d, ".")
    IN  /\ Len(labels) >= 2
        /\ \A i \in 1..Len(labels) :
              /\ labels[i] # <<>>
              /\ \A k \in 1..Len(labels[i]) : labels[i][k] \in AlnumChars
        /\ Len(labels[Len(labels)]) >= 2

ValidEmail(s) ==
    LET at == LastIndexOf(s, "@")
    IN  /\ s # <<>>
        /\ at # 0
        /\ UserPartOK(SubSeq(s, 1, at - 1))
        /\ DomainPartOK(SubSeq(s, at + 1, Len(s)))

---------------------------------------------------------------------------
(* LoginSerializer: the declared fields *)

\* email = serializers.EmailField()
EmailField ==
    [name |-> "email", required |-> TRUE, allow_null |-> FALSE,
     allow_blank |-> FALSE, trim_whitespace |-> TRUE, email_syntax |-> TRUE]

PasswordField_AllowBlank ==
    [name |-> "password", required |-> TRUE, allow_null |-> FALSE,
     allow_blank |-> TRUE, trim_whitespace |-> TRUE, email_syntax |-> FALSE]

\* password = serializers.CharField(write_only=True)
PasswordField ==
    [name |-> "password", required |-> TRUE, allow_null |-> FALSE,
     allow_blank |-> FALSE, trim_whitespace |-> TRUE, email_syntax |-> FALSE]

Fields == <<EmailField, PasswordField>>

FieldNames == {Fields[i].name : i \in DOMAIN Fields}

ErrorMessage ==
    [required |-> "This field is required.",
     null |-> "This field may not be null.",
     blank |-> "This field may not be blank.",
     invalid |-> "Not a valid string.",
     invalid_email |-> "Enter a valid email address."]

\* CharField.run_validation's test for the empty string
IsBlank(field, data) ==
    /\ data.kind = "str"
    /\ \/ data.chars = <<>>
       \/ field.trim_whitespace /\ Strip(data.chars) = <<>>

\* the error code a field raises for a value of the body, "" when it raises none
FieldErrorCode(field, data) ==
    IF IsBlank(field, data)
    THEN IF field.allow_blank THEN "" ELSE "blank"
    ELSE IF data.kind = "empty"
    THEN IF field.required THEN "required" ELSE ""
    ELSE IF data.kind = "null"
    THEN IF field.allow_null THEN "" ELSE "null"
    ELSE IF data.kind \notin {"str", "num"}
    THEN "invalid"
    ELSE LET s == Str(data)
             v == IF field.trim_whitespace THEN Strip(s) ELSE s
         IN  IF field.email_syntax /\ ~ValidEmail(v) THEN "invalid_email" ELSE ""

\* the value a field hands on when it raises no error
FieldValue(field, data) ==
    IF IsBlank(field, data) THEN <<>>
    ELSE IF field.trim_whitespace THEN Strip(Str(data)) ELSE Str(data)

FieldErrors_EchoInput(field, data) ==
    IF FieldErrorCode(field, data) = "" THEN <<>>
    ELSE <<ErrorMessage[FieldErrorCode(field, data)], data>>

\* the list of messages a field contributes to serializer.errors
FieldErrors(field, data) ==
    IF FieldErrorCode(field, data) = "" THEN <<>>
    ELSE <<ErrorMessage[FieldErrorCode(field, data)]>>

\* LoginSerializer.validate
Validate(data) == data

NonFieldErrors ==
    [non_field_errors |-> <<"Invalid data. Expected a dictionary, but got list.">>]

NoBody == [f \in {} |-> <<>>]
NoData == [email |-> <<>>, password |-> <<>>]

FieldByName(f) == CHOOSE x \in {Fields[i] : i \in DOMAIN Fields} : x.name = f

Errors_AllFields(payload) ==
    [f \in FieldNames |-> FieldErrors(FieldByName(f), payload[f])]

\* serializer.errors after is_valid() on a mapping payload
Errors(payload) ==
    LET bad == {i \in DOMAIN Fields :
                    FieldErrors(Fields[i], payload[Fields[i].name]) # <<>>}
    IN  [f \in {Fields[i].name : i \in bad} |->
            FieldErrors(FieldByName(f), payload[f])]

\* LoginSerializer(data=payload).is_valid(): the flag, validated_data, errors
IsValid(payload) ==
    IF ~payload.mapping
    THEN [valid |-> FALSE, validated_data |-> NoData, errors |-> NonFieldErrors]
    ELSE IF DOMAIN Errors(payload) # {}
    THEN [valid |-> FALSE, validated_data |-> NoData, errors |-> Errors(payload)]
    ELSE [valid |-> TRUE,
          validated_data |->
              Validate([f \in FieldNames |->
                            FieldValue(FieldByName(f), payload[f])]),
          errors |-> NoBody]

---------------------------------------------------------------------------
(* The identity subsystem the view calls: django.contrib.auth *)

None == [kind |-> "none", username |-> <<>>]
Principal(u) == [kind |-> "user", username |-> u]

Email1 == <<"a", "@", "a", ".", "a", "a">>
Email2 == <<"1", "@", "a", ".", "a", "a">>
Email3 == <<"a", "@", "a", ".", "1", "1">>

\* the credential stores the model runs against, identifier -> secret:
\* Email1 and Email2 name principals, Email3 names none
UserStores == { (Email1 :> <<"a">>) @@ (Email2 :> <<"a", "a">>) }

\* the exceptions authenticate() may raise
AuthExceptions == {"OperationalError", "ImproperlyConfigured"}

\* authenticate(request, username=..., password=...) when it returns
Authenticate(store, username, password) ==
    IF username \in DOMAIN store /\ store[username] = password
    THEN Principal(username)
    ELSE None

---------------------------------------------------------------------------
(* Requests *)

EmailStrings == { <<"a">>, Email1, Email2, <<" ">> \o Email3 }

EmailInputs == {Empty, Null} \cup {JsonStr(s) : s \in EmailStrings}

PasswordInputs ==
    {Empty, JsonList, JsonNum(<<"1">>)}
        \cup {JsonStr(s) : s \in StringsUpTo({"a", Space}, MaxPwLen)}

\* request.data: a JSON object with any of the two keys, or a JSON list
Payloads ==
    [mapping : {TRUE}, email : EmailInputs, password : PasswordInputs]
        \cup {[mapping |-> FALSE, email |-> Empty, password |-> Empty]}

---------------------------------------------------------------------------
(* LoginAPIView.post *)

HTTP_200_OK == 200
HTTP_400_BAD_REQUEST == 400
HTTP_401_UNAUTHORIZED == 401

SuccessBody_PerUser(u) ==
    [message |-> "Login successful",
     redirect_url |-> IF u.username = Email1 THEN "/dashboard/" ELSE "/admin/"]

\* the body of the 200 response, built after login(request, u)
SuccessBody(u) ==
    [message |-> "Login successful", redirect_url |-> "/dashboard/"]

InvalidCredentialsBody == [error |-> "Invalid credentials"]

\* one entry of the per-request log of calls and responses
Call(op, username, password, result, raised, status) ==
    [op |-> op, username |-> username, password |-> password,
     user |-> result, raised |-> raised, status |-> status]

NotRun == [valid |-> FALSE, validated_data |-> NoData, errors |-> NoBody]

NoPrev ==
    [present |-> FALSE,
     request |-> [mapping |-> FALSE, email |-> Empty, password |-> Empty],
     responses |-> <<>>, calls |-> <<>>]

Init ==
    /\ users \in UserStores
    /\ request \in Payloads
    /\ pc = "post"
    /\ serializer = NotRun
    /\ user = None
    /\ calls = <<>>
    /\ responses = <<>>
    /\ exc = "none"
    /\ session = None
    /\ prev = NoPrev

\* if serializer.is_valid(): ... else fall through to the 400 response
AfterIsValid(valid) == IF valid THEN "authenticate" ELSE "respond400"

AfterAuthenticate_Retry(u) == IF u.kind = "user" THEN "login" ELSE "authenticate"

AfterAuthenticate_NoReturn(u) == IF u.kind = "user" THEN "login" ELSE "returned"

AfterAuthenticate_LoginAlways(u) == "login"

AfterAuthenticate_NoLogin(u) == IF u.kind = "user" THEN "respond200" ELSE "respond401"

\* if user is not None: login and 200, else 401
AfterAuthenticate(u) == IF u.kind = "user" THEN "login" ELSE "respond401"

OnAuthenticateRaise_Caught(e) == [pc |-> "respond401", exc |-> "none"]

\* authenticate() is called outside any try block: the exception leaves post()
OnAuthenticateRaise(e) == [pc |-> "raised", exc |-> e]

\* serializer = LoginSerializer(data=request.data); serializer.is_valid()
IsValidStep ==
    /\ pc = "post"
    /\ serializer' = IsValid(request)
    /\ pc' = AfterIsValid(serializer'.valid)
    /\ UNCHANGED <<users, request, user, calls, responses, exc, session, prev>>

\* the arguments the view passes to authenticate()
AuthArgs(validated_data) ==
    [username |-> validated_data["email"], password |-> validated_data["password"]]

\* user = authenticate(request, username=email, password=password), returning
AuthenticateReturns ==
    /\ pc = "authenticate"
    /\ Len(calls) < MaxCalls
    /\ LET a == AuthArgs(serializer.validated_data)
           u == Authenticate(users, a.username, a.password)
       IN  /\ user' = u
           /\ calls' = Append(calls,
                  Call("authenticate", a.username, a.password, u, "none", 0))
           /\ pc' = AfterAuthenticate(u)
    /\ UNCHANGED <<users, request, serializer, responses, exc, session, prev>>

\* the same call, raising
AuthenticateRaises(e) ==
    /\ pc = "authenticate"
    /\ Len(calls) < MaxCalls
    /\ LET a == AuthArgs(serializer.validated_data)
       IN  calls' = Append(calls,
               Call("authenticate", a.username, a.password, None, e, 0))
    /\ pc' = OnAuthenticateRaise(e).pc
    /\ exc' = OnAuthenticateRaise(e).exc
    /\ UNCHANGED <<users, request, serializer, user, responses, session, prev>>

\* login(request, user)
Login ==
    /\ pc = "login"
    /\ Len(calls) < MaxCalls
    /\ calls' = Append(calls, Call("login", <<>>, <<>>, user, "none", 0))
    /\ session' = user
    /\ pc' = "respond200"
    /\ UNCHANGED <<users, request, serializer, user, responses, exc, prev>>

Respond(status, body) ==
    /\ Len(calls) < MaxCalls
    /\ responses' = Append(responses, [status |-> status, body |-> body])
    /\ calls' = Append(calls, Call("response", <<>>, <<>>, None, "none", status))
    /\ pc' = "returned"
    /\ UNCHANGED <<users, request, serializer, user, exc, session, prev>>

\* return Response({...}, status=status.HTTP_200_OK)
Respond200 == pc = "respond200" /\ Respond(HTTP_200_OK, SuccessBody(user))

\* return Response({'error': ...}, status=status.HTTP_401_UNAUTHORIZED)
Respond401 == pc = "respond401" /\ Respond(HTTP_401_UNAUTHORIZED, InvalidCredentialsBody)

\* return Response(serializer.errors, status=status.HTTP_400_BAD_REQUEST)
Respond400 == pc = "respond400" /\ Respond(HTTP_400_BAD_REQUEST, serializer.errors)

\* the next POST is routed to a fresh LoginAPIView.post; the finished exchange
\* is kept in prev for comparison with the new one
Dispatch(payload) ==
    /\ pc \in {"returned", "raised"}
    /\ prev' = [present |-> TRUE, request |-> request, responses |-> responses,
                calls |-> calls]
    /\ request' = payload
    /\ pc' = "post"
    /\ serializer' = NotRun
    /\ user' = None
    /\ calls' = <<>>
    /\ responses' = <<>>
    /\ exc' = "none"
    /\ UNCHANGED <<users, session>>

Next ==
    \/ IsValidStep
    \/ AuthenticateReturns
    \/ \E e \in AuthExceptions : AuthenticateRaises(e)
    \/ Login
    \/ Respond200
    \/ Respond401
    \/ Respond400
    \/ \E payload \in Payloads : Dispatch(payload)

Spec == Init /\ [][Next]_vars

TypeOK ==
    /\ users \in UserStores
    /\ request \in Payloads
    /\ pc \in {"post", "authenticate", "login", "respond200", "respond401",
               "respond400", "returned", "raised"}
    /\ Len(calls) <= MaxCalls
    /\ Len(responses) <= 1

---------------------------------------------------------------------------
(* Reading the log of one request *)

AuthCallsOf(log) == {i \in DOMAIN log : log[i].op = "authenticate"}
LoginCallsOf(log) == {i \in DOMAIN log : log[i].op = "login"}
ResponseCallsOf(log) == {i \in DOMAIN log : log[i].op = "response"}

AuthRaisedIn(log) == \E i \in AuthCallsOf(log) : log[i].raised # "none"
AuthReturnedNoneIn(log) ==
    \E i \in AuthCallsOf(log) : log[i].raised = "none" /\ log[i].user.kind = "none"
AuthReturnedPrincipalIn(log) ==
    \E i \in AuthCallsOf(log) : log[i].raised = "none" /\ log[i].user.kind = "user"

Ended == pc \in {"returned", "raised"}

\* both exchanges, the kept one and the current one, ended with a response
BothResponded ==
    /\ prev.present
    /\ pc = "returned"
    /\ Len(prev.responses) = 1
    /\ Len(responses) = 1

\* the two exchanges carry the same body except for the password value
DifferOnlyInPassword ==
    /\ prev.request.mapping
    /\ request.mapping
    /\ prev.request.email = request.email
    /\ prev.request.password # request.password

---------------------------------------------------------------------------
(* C1 *)

IsOutcome(r) ==
    \/ r.status = 200 /\ DOMAIN r.body = {"message", "redirect_url"}
    \/ r.status = 401 /\ DOMAIN r.body = {"error"}
    \/ r.status = 400 /\ DOMAIN r.body # {}
                      /\ DOMAIN r.body \subseteq {"email", "password", "non_field_errors"}

---------------------------------------------------------------------------
(* C2 *)

\* the field values the serializer rejects, read off the request body
EmailOffends(raw) ==
    ~(raw.kind \in {"str", "num"} /\ ValidEmail(Strip(raw.chars)))

PasswordOffends(raw) ==
    \/ raw.kind \notin {"str", "num"}
    \/ Strip(raw.chars) = <<>>

Offending(payload) ==
    {f \in {"email"} : EmailOffends(payload.email)}
        \cup {f \in {"password"} : PasswordOffends(payload.password)}

---------------------------------------------------------------------------
(* C3 *)

\* C3: when authenticate() returns None the response is 401 with body
\* {"error": "Invalid credentials"}, and it is the same response whether the
\* e-mail names no principal or the password is wrong.
C3_UniformInvalidCredentials ==
    /\ (pc = "returned" /\ AuthReturnedNoneIn(calls)) =>
           responses = <<[status |-> 401,
                          body |-> [error |-> "Invalid credentials"]]>>
    /\ (BothResponded /\ AuthReturnedNoneIn(calls) /\ AuthReturnedNoneIn(prev.calls)) =>
           responses = prev.responses

\* the kept exchange named a principal with a wrong password, the current one
\* names no principal
W_C3 ==
    /\ BothResponded
    /\ AuthReturnedNoneIn(calls)
    /\ AuthReturnedNoneIn(prev.calls)
    /\ \E i \in AuthCallsOf(calls) : calls[i].username \notin DOMAIN users
    /\ \E i \in AuthCallsOf(prev.calls) :
           /\ prev.calls[i].username \in DOMAIN users
           /\ users[prev.calls[i].username] # prev.calls[i].password
    /\ responses[1].status = 401

---------------------------------------------------------------------------
(* C4 *)

\* C4: when authenticate() returns a Principal the response is 200 with body
\* {"message": "Login successful", "redirect_url": "/dashboard/"}, the same
\* for every principal and every request.
C4_SuccessFixedRedirect ==
    /\ (pc = "returned" /\ AuthReturnedPrincipalIn(calls)) =>
           responses = <<[status |-> 200,
                          body |-> [message |-> "Login successful",
                                    redirect_url |-> "/dashboard/"]]>>
    /\ (BothResponded /\ AuthReturnedPrincipalIn(calls)
            /\ AuthReturnedPrincipalIn(prev.calls)) =>
           responses = prev.responses

\* two different principals logged in one after the other
W_C4 ==
    /\ BothResponded
    /\ \E i \in AuthCallsOf(calls) : calls[i].user = Principal(Email2)
    /\ \E i \in AuthCallsOf(prev.calls) : prev.calls[i].user = Principal(Email1)
    /\ responses[1].status = 200

---------------------------------------------------------------------------
(* C5 *)

PasswordCheckFailed(raw) ==
    IF raw.kind = "empty" THEN "required"
    ELSE IF raw.kind = "null" THEN "null"
    ELSE IF raw.kind \notin {"str", "num"} THEN "invalid"
    ELSE IF Strip(raw.chars) = <<>> THEN "blank"
    ELSE "ok"

---------------------------------------------------------------------------
(* C6 *)

EmptyPasswordValidEmail ==
    /\ request.mapping
    /\ request.password = JsonStr(<<>>)
    /\ request.email.kind = "str"
    /\ ValidEmail(Strip(request.email.chars))

---------------------------------------------------------------------------
(* C7 *)

\* C7: an exception raised by authenticate() leaves post() as it was raised:
\* post() produces no response for the request and login() is not called.
C7_AuthenticateExceptionPropagates ==
    \A i \in AuthCallsOf(calls) :
        calls[i].raised # "none" =>
            /\ pc = "raised"
            /\ exc = calls[i].raised
            /\ responses = <<>>
            /\ ResponseCallsOf(calls) = {}
            /\ LoginCallsOf(calls) = {}

W_C7 ==
    /\ pc = "raised"
    /\ exc = "OperationalError"
    /\ AuthRaisedIn(calls)
    /\ request.email = JsonStr(Email1)

---------------------------------------------------------------------------
(* C8 *)

\* C8: login() is called in a request iff authenticate() returned a Principal
\* in it; then exactly once, after authenticate() returned and before the 200
\* response, with the Principal authenticate() returned.  A request answered
\* 400 or 401 has not called login().
C8_LoginIffPrincipal ==
    /\ Cardinality(LoginCallsOf(calls)) <= 1
    /\ \A l \in LoginCallsOf(calls) :
           /\ \E a \in AuthCallsOf(calls) :
                  /\ a < l
                  /\ calls[a].raised = "none"
                  /\ calls[a].user.kind = "user"
                  /\ calls[l].user = calls[a].user
           /\ session = calls[l].user
    /\ \A r \in ResponseCallsOf(calls) :
           IF calls[r].status = 200
           THEN \E l \in LoginCallsOf(calls) : l < r
           ELSE LoginCallsOf(calls) = {}
    /\ pc = "returned" =>
           (LoginCallsOf(calls) # {} <=> AuthReturnedPrincipalIn(calls))

W_C8 ==
    /\ pc = "returned"
    /\ Cardinality(LoginCallsOf(calls)) = 1
    /\ responses[1].status = 200
    /\ session = Principal(Email2)

---------------------------------------------------------------------------
(* C9 *)

\* C9: a request makes exactly one authenticate() call when its payload
\* passes validation and none when it fails; there is no retry after None,
\* and up to the 400 response neither authenticate() nor login() is called.
C9_AuthenticateCalledOnceIffValid ==
    /\ Cardinality(AuthCallsOf(calls)) <= 1
    /\ pc \in {"post", "authenticate", "respond400"} => calls = <<>>
    /\ Ended =>
           Cardinality(AuthCallsOf(calls))
               = IF request.mapping /\ Offending(request) = {} THEN 1 ELSE 0
    /\ \A r \in ResponseCallsOf(calls) :
           calls[r].status = 400 =>
               AuthCallsOf(calls) = {} /\ LoginCallsOf(calls) = {}

W_C9 ==
    /\ BothResponded
    /\ responses[1].status = 401
    /\ Cardinality(AuthCallsOf(calls)) = 1
    /\ prev.responses[1].status = 400
    /\ prev.calls = <<Call("response", <<>>, <<>>, None, "none", 400)>>

---------------------------------------------------------------------------
(* C10 *)

\* C10: authenticate() is called with username equal to the e-mail string of
\* the request body and password equal to its password string, character for
\* character.
C10_CredentialsPassedVerbatim ==
    \A i \in AuthCallsOf(calls) :
        (request.email.kind = "str" /\ request.password.kind = "str") =>
            /\ calls[i].username = request.email.chars
            /\ calls[i].password = request.password.chars

====
